---- MODULE Spec2Model ----
(***************************************************************************)
(* AtenaDocs PDF merge page: the file batch kept by MergePdfPage           *)
(* (src/app/pdf/merge/page.tsx), the merge orchestration of FileList       *)
(* (components/adocs/FileList.tsx) and the server actions of               *)
(* src/lib/actions.ts, as one state machine.                               *)
(*                                                                         *)
(* One action is one run of the event loop: a user event handler, or the   *)
(* continuation of handleMergeClick that runs when an awaited promise      *)
(* settles (the microtasks that follow a handler run in the same step).    *)
(***************************************************************************)
EXTENDS Integers, Sequences, FiniteSets, TLC

\* ---------------------------------------------------------------- bounds
MaxFiles == 3       \* longest batch explored
MaxSel == 2         \* most files in one selection / drop
MaxAttempts == 2    \* merge attempts explored per behaviour
MaxStale == 1       \* uploads of earlier attempts in flight when one starts

\* ------------------------------------------------------------- constants
MAX_TOTAL_SIZE_MB == 100
MAX_TOTAL_SIZE_BYTES == MAX_TOTAL_SIZE_MB * 1024 * 1024

PDF == "application/pdf"
Names == {"a.pdf", "b.pdf", "c.pdf"}
Types == {PDF, "image/png"}
Sizes == {1, MAX_TOTAL_SIZE_BYTES - 1}

\* The File objects a user can select or drop.
FileUniverse == [name : Names, size : Sizes, type : Types]

\* A selection handed over by FileUpload: a non-empty array of File objects.
Selections == UNION {[1..n -> FileUniverse] : n \in 1..MaxSel}

\* The selections explored together with merge attempts: small PDF files,
\* one file, or the same file name twice.
SmallPdfs == {f \in FileUniverse : f.size = 1 /\ f.type = PDF}
AttemptSelections ==
  {<<f>> : f \in SmallPdfs} \cup {<<f, f>> : f \in SmallPdfs}

\* ------------------------------------------------------------ JS helpers
Range(s) == {s[i] : i \in DOMAIN s}

RECURSIVE SumSizes(_)
SumSizes(fs) == IF fs = <<>> THEN 0 ELSE fs[1].size + SumSizes(Tail(fs))

RECURSIVE Filter(_, _)
\* Array.prototype.filter with the predicate given as the set of kept indices
Filter(s, keep) ==
  IF s = <<>> THEN <<>>
  ELSE LET n == Len(s)
           init == Filter(SubSeq(s, 1, n - 1), keep)
       IN IF n \in keep THEN Append(init, s[n]) ELSE init

\* Array.prototype.find: index of the first element satisfying Test, 0 if none
FirstIndex(s, Test(_)) ==
  IF \E i \in DOMAIN s : Test(s[i])
  THEN CHOOSE i \in DOMAIN s : Test(s[i]) /\ \A j \in 1..(i - 1) : ~Test(s[j])
  ELSE 0

\* remove the element at 1-based position i (splice(i, 1))
RemoveAt(s, i) == SubSeq(s, 1, i - 1) \o SubSeq(s, i + 1, Len(s))
\* insert x so that it ends at 1-based position i (splice(i, 0, x))
InsertAt(s, i, x) == SubSeq(s, 1, i - 1) \o <<x>> \o SubSeq(s, i, Len(s))

\* ------------------------------------------------------------- the state
VARIABLES
  apiUrl,          \* actions.ts API_URL: TRUE when the environment sets it
  files,           \* page.tsx useState<File[]>
  mergedPdfUrl,    \* page.tsx useState<string|null>: <<>> is null
  draggedIndex,    \* FileList: <<>> is null, <<i>> the 0-based index i
  isPreparing, isUploading, isMerging,   \* FileList loading flags
  uploadProgress,  \* FileList Record<string, number>
  phase,           \* where the latest handleMergeClick invocation stands
  attempt,         \* number of merge attempts started so far
  capFiles,        \* the `files` array captured by the running invocation
  uploadDetails,   \* the grants returned to the running invocation
  xhrs,            \* XMLHttpRequests in flight
  uploadResults,   \* the uploads of the latest attempt that have ended:
                   \* [idx, status] in the order in which they ended
  netRequests,     \* backend requests issued by the latest attempt
  mergeReq,        \* <<>> or <<fileKeys>> passed to triggerPdfMerge
  failToasts,      \* failure toasts shown by the catch block, this attempt
  emitted,         \* toasts emitted by the handler that ran last
  selected,        \* argument of the handleFilesSelected call that ran last
  isDownloading,   \* page.tsx useState(false)
  answered,        \* <<>> or the HTTP response that the server action which
                   \* settled last was given
  memoryState,     \* use-toast.ts: the toast store, [toasts |-> newest first]
  count,           \* use-toast.ts: the counter behind genId
  toastTimeouts    \* use-toast.ts: the ids with a removal timer pending

\* the store of use-toast.ts
toastVars == <<memoryState, count, toastTimeouts>>
\* the merge page and its file list
mergeVars == <<apiUrl, files, mergedPdfUrl, draggedIndex, isPreparing,
               isUploading, isMerging, uploadProgress, phase, attempt, capFiles,
               uploadDetails, xhrs, uploadResults, netRequests, mergeReq,
               failToasts, emitted, selected, isDownloading, answered>>

vars == <<mergeVars, toastVars>>

pageVars == <<files, mergedPdfUrl>>
flagVars == <<isPreparing, isUploading, isMerging>>
closureVars == <<capFiles, uploadDetails, uploadResults, netRequests,
                 mergeReq, failToasts>>
attemptVars == <<phase, attempt, closureVars>>

isLoading == isPreparing \/ isUploading \/ isMerging

\* JS truthiness of mergedPdfUrl: null and undefined are falsy.
Undefined == <<"undefined">>
Truthy(url) == url # <<>> /\ url # Undefined

\* FileList is rendered only in the upload view and for a non-empty batch.
FileListMounted(fs, url) == ~Truthy(url) /\ fs # <<>>

Toast(title, variant, about) ==
  [title |-> title, variant |-> variant, about |-> about]

\* ------------------------------------------------- page.tsx: the batch

\* The filter callback with ">=" for ">" in the size check.
RejectReasonAtCeiling(fs, file, newFilesSize) ==
  IF file.type # PDF THEN "Tipo de arquivo invalido"
  ELSE IF \E existing \in Range(fs) : existing.name = file.name
       THEN "Arquivo duplicado"
  ELSE IF SumSizes(fs) + newFilesSize + file.size >= MAX_TOTAL_SIZE_BYTES
       THEN "Limite de tamanho excedido"
  ELSE "ok"

\* The filter callback without its type check.
RejectReasonAnyType(fs, file, newFilesSize) ==
  IF \E existing \in Range(fs) : existing.name = file.name
       THEN "Arquivo duplicado"
  ELSE IF SumSizes(fs) + newFilesSize + file.size > MAX_TOTAL_SIZE_BYTES
       THEN "Limite de tamanho excedido"
  ELSE "ok"

\* The three checks of the filter callback, for the file at position i of the
\* selection when newFilesSize is the size accepted so far.
RejectReason(fs, file, newFilesSize) ==
  IF file.type # PDF THEN "Tipo de arquivo invalido"
  ELSE IF \E existing \in Range(fs) : existing.name = file.name
       THEN "Arquivo duplicado"
  ELSE IF SumSizes(fs) + newFilesSize + file.size > MAX_TOTAL_SIZE_BYTES
       THEN "Limite de tamanho excedido"
  ELSE "ok"

RECURSIVE FilterSelected(_, _)
\* selectedFiles.filter(...): [kept: accepted indices, size: newFilesSize,
\* toasts: the notifications in emission order]
FilterSelected(fs, sel) ==
  IF sel = <<>> THEN [kept |-> {}, size |-> 0, toasts |-> <<>>]
  ELSE LET n == Len(sel)
           before == FilterSelected(fs, SubSeq(sel, 1, n - 1))
           why == RejectReason(fs, sel[n], before.size)
       IN IF why = "ok"
          THEN [kept |-> before.kept \cup {n},
                size |-> before.size + sel[n].size,
                toasts |-> before.toasts]
          ELSE [kept |-> before.kept, size |-> before.size,
                toasts |-> Append(before.toasts,
                                  Toast(why, "destructive", <<sel[n].name>>))]

NewFiles(fs, sel) == Filter(sel, FilterSelected(fs, sel).kept)


\* ---------------------------------------------- actions.ts: server actions

Threw(error) == [threw |-> TRUE, error |-> error, value |-> <<>>]
Returned(value) == [threw |-> FALSE, error |-> <<>>, value |-> value]

\* HTTP response bodies: text as received, and what JSON.parse makes of it.
Body(kind, has, uploads, downloadUrl, error) ==
  [kind |-> kind, has |-> has, uploads |-> uploads,
   downloadUrl |-> downloadUrl, error |-> error]
EmptyBody == Body("empty", {}, <<>>, <<>>, "")
TextBody == Body("text", {}, <<>>, <<>>, "Internal Server Error")
JsonBody(has, uploads, downloadUrl, error) ==
  Body("json", has, uploads, downloadUrl, error)

Response(status, body) == [status |-> status, body |-> body]
\* the response given to the server action named action
Answered(action, resp) == [action |-> action, resp |-> resp]
Unreachable == Response("unreachable", EmptyBody)

\* responseText || responseJson?.error || response.statusText
ErrorMessageTextFirst(body) ==
  IF body.kind = "json" THEN "responseText"
  ELSE IF body.kind = "text" THEN body.error
  ELSE "statusText"

\* responseJson?.error || responseText || response.statusText
ErrorMessage(body) ==
  IF body.kind = "json" /\ "error" \in body.has /\ body.error # ""
    THEN body.error
  ELSE IF body.kind = "empty" THEN "statusText"
  ELSE IF body.kind = "text" THEN body.error
  ELSE "responseText"

\* apiPost without the check of API_URL
apiPostUnchecked(configured, resp) ==
  IF resp.status = "unreachable" THEN Threw(<<"fetch failed">>)
  ELSE IF resp.status # "ok"
    THEN Threw(<<"Backend API Error: ", ErrorMessage(resp.body)>>)
  ELSE IF resp.body.kind # "json"
    THEN Threw(<<"API Error: The backend returned a successful status code but the response body was empty or not valid JSON.">>)
  ELSE Returned(resp.body)

apiPost(configured, resp) ==
  IF ~configured THEN Threw(<<"Configuration Error">>)
  ELSE IF resp.status = "unreachable" THEN Threw(<<"fetch failed">>)
  ELSE IF resp.status # "ok"
    THEN Threw(<<"Backend API Error: ", ErrorMessage(resp.body)>>)
  ELSE IF resp.body.kind # "json"
    THEN Threw(<<"API Error: The backend returned a successful status code but the response body was empty or not valid JSON.">>)
  ELSE Returned(resp.body)

\* a JS value that is an array or undefined
JsArray(arr) == [defined |-> TRUE, arr |-> arr]
JsUndefined == [defined |-> FALSE, arr |-> <<>>]

\* getUploadUrls answered from a cache that the first attempt filled
getUploadUrlsCached(configured, resp) ==
  LET result == apiPost(configured, resp)
      Cached(g) == [g EXCEPT !.key = [@ EXCEPT ![2] = 1]]
  IN IF result.threw THEN result
     ELSE IF "uploads" \in result.value.has
       THEN Returned(JsArray([i \in DOMAIN result.value.uploads |->
                                Cached(result.value.uploads[i])]))
     ELSE Returned(JsUndefined)

\* getUploadUrls returning result.uploads.slice(1)
getUploadUrlsSliced(configured, resp) ==
  LET result == apiPost(configured, resp)
  IN IF result.threw THEN result
     ELSE IF "uploads" \in result.value.has
       THEN Returned(JsArray(IF result.value.uploads = <<>> THEN <<>>
                             ELSE Tail(result.value.uploads)))
     ELSE Returned(JsUndefined)

getUploadUrls(configured, resp) ==
  LET result == apiPost(configured, resp)
  IN IF result.threw THEN result
     ELSE IF "uploads" \in result.value.has
       THEN Returned(JsArray(result.value.uploads))
     ELSE Returned(JsUndefined)

triggerPdfMerge(configured, resp) ==
  LET result == apiPost(configured, resp)
  IN IF result.threw THEN result
     ELSE IF "downloadUrl" \in result.value.has
       THEN Returned(result.value.downloadUrl)
     ELSE Returned(Undefined)

\* ------------------------------------------------ the merge service (Lambda)

Grant(name, key, hasKey) ==
  [originalFileName |-> name, url |-> "s3", key |-> key, hasKey |-> hasKey]

\* handle_generate_urls: one grant per requested name, each with a key of its
\* own; id stands for the unique part the service puts into the keys.
handle_generate_urls(fileNames, id) ==
  [i \in 1..Len(fileNames) |->
     Grant(fileNames[i], <<"uploads", id, i, fileNames[i]>>, TRUE)]

\* What a POST /upload for fileNames can be answered with.
UploadResponses(fileNames, id) ==
  { Response("ok", JsonBody({"uploads"}, handle_generate_urls(fileNames, id), <<>>, "")),
    Response("ok", JsonBody({}, <<>>, <<>>, "")),
    Response("ok", EmptyBody),
    Response("error", JsonBody({"error"}, <<>>, <<>>, "bad request")),
    Response("error", JsonBody({}, <<>>, <<>>, "")),
    Response("error", TextBody),
    Response("error", EmptyBody),
    Unreachable }

\* What a POST /merge can be answered with.
MergeResponses(id) ==
  { Response("ok", JsonBody({"downloadUrl"}, <<>>, <<"downloadUrl", id>>, "")),
    Response("ok", JsonBody({}, <<>>, <<>>, "")),
    Response("ok", TextBody),
    Response("error", JsonBody({"error"}, <<>>, <<>>, "merge failed")),
    Response("error", JsonBody({}, <<>>, <<>>, "")),
    Response("error", EmptyBody),
    Unreachable }



\* ------------------------------------------------- FileList.tsx: helpers

NoProgress == [n \in {} |-> 0]
SetProgress(progress, name, percent) ==
  [n \in DOMAIN progress \cup {name} |->
     IF n = name THEN percent ELSE progress[n]]

\* percentages an upload progress event can report
ProgressLevels == {50, 100}
\* HTTP statuses the storage endpoint answers an upload with
UploadStatuses == {200, 300}
\* xhr.status of a request that ended in onerror
NetworkErrorStatus == 0
\* xhr.status >= 200 && xhr.status <= 300
StatusOkUpTo300(status) == status >= 200 /\ status <= 300
StatusOk(status) == status >= 200 /\ status < 300

\* `to` is the key of the grant the request posts to (post_details)
Xhr(att, idx, name, loaded, to) ==
  [att |-> att, idx |-> idx, name |-> name, loaded |-> loaded, to |-> to]

NoResults == <<>>
Ended(idx, status) == [idx |-> idx, status |-> status]

\* what splice leaves in `removed` when nothing was removed
UndefinedFile == [name |-> "undefined", size |-> 0, type |-> "undefined"]

\* the splice pair in the other order: insert at `to`, then remove at `from`
ReorderedInsertFirst(fs, from, to) ==
  IF from + 1 \in DOMAIN fs
  THEN RemoveAt(InsertAt(fs, to + 1, fs[from + 1]), from + 1)
  ELSE InsertAt(fs, to + 1, UndefinedFile)

\* handleDragEnter's splice pair, with 0-based from/to as in the source
Reordered(fs, from, to) ==
  IF from + 1 \in DOMAIN fs
  THEN InsertAt(RemoveAt(fs, from + 1), to + 1, fs[from + 1])
  ELSE InsertAt(fs, to + 1, UndefinedFile)

\* files.find without the comparison of names: the first file
FindFileFirst(fs, details) == IF fs = <<>> THEN 0 ELSE 1

\* files.find((f) => f.name === details.originalFileName)
FindFile(fs, details) ==
  LET Test(f) == f.name = details.originalFileName IN FirstIndex(fs, Test)

\* uploadDetails.find(d => d.originalFileName === file.name)
FindDetail(details, file) ==
  LET Test(d) == d.originalFileName = file.name IN FirstIndex(details, Test)

\* Phase 3 with the keys collected from the last file to the first.
OrderedKeysReversed(fs, details) ==
  LET Bad(f) == LET d == FindDetail(details, f)
                IN d = 0 \/ ~details[d].hasKey
      firstBad == FirstIndex(fs, Bad)
  IN IF firstBad # 0
     THEN Threw(<<"Detalhes do envio ausentes para ", fs[firstBad].name>>)
     ELSE Returned([i \in 1..Len(fs) |->
                      details[FindDetail(details, fs[Len(fs) + 1 - i])].key])

\* Phase 3: files.map(file => ...key), or the error of the first file
\* whose detail or key is missing.
OrderedKeys(fs, details) ==
  LET Bad(f) == LET d == FindDetail(details, f)
                IN d = 0 \/ ~details[d].hasKey
      firstBad == FirstIndex(fs, Bad)
  IN IF firstBad # 0
     THEN Threw(<<"Detalhes do envio ausentes para ", fs[firstBad].name>>)
     ELSE Returned([i \in 1..Len(fs) |-> details[FindDetail(details, fs[i])].key])

\* Promise.all over the uploads of the grants resolves when all have resolved.
AllFulfilled(results, details) ==
  \A i \in DOMAIN details :
    \E r \in Range(results) : r.idx = i /\ StatusOk(r.status)

\* error.message.toLowerCase().includes("network error")
IncludesNetworkError(error) ==
  \E i \in DOMAIN error : error[i] \in {"Network Error", "network error"}

\* the description the catch block shows for an error
CatchDescription(error) ==
  IF IncludesNetworkError(error) THEN <<"CORS">> ELSE error

\* a finally block without setIsUploading(false)
FinallyFlagsKeepUploading == <<FALSE, TRUE, FALSE>>

\* the values the finally block leaves in <<isPreparing, isUploading, isMerging>>
FinallyFlags == <<FALSE, FALSE, FALSE>>

\* the toasts the catch block shows for one caught error
CatchToasts(error) ==
  <<Toast("Falha na operacao", "destructive", CatchDescription(error))>>

\* the local state of a FileList that has just been mounted
FreshFileList ==
  /\ draggedIndex' = <<>>
  /\ isPreparing' = FALSE
  /\ isUploading' = FALSE
  /\ isMerging' = FALSE
  /\ uploadProgress' = NoProgress
  /\ xhrs' = {}

\* ------------------------------------------------------------------ Init

Init ==
  /\ apiUrl \in BOOLEAN
  /\ files = <<>>
  /\ mergedPdfUrl = <<>>
  /\ draggedIndex = <<>>
  /\ isPreparing = FALSE
  /\ isUploading = FALSE
  /\ isMerging = FALSE
  /\ uploadProgress = NoProgress
  /\ phase = "Idle"
  /\ attempt = 0
  /\ capFiles = <<>>
  /\ uploadDetails = <<>>
  /\ xhrs = {}
  /\ uploadResults = NoResults
  /\ netRequests = {}
  /\ mergeReq = <<>>
  /\ failToasts = 0
  /\ emitted = <<>>
  /\ selected = <<>>
  /\ isDownloading = FALSE
  /\ answered = <<>>
  /\ memoryState = [toasts |-> <<>>]
  /\ count = 0
  /\ toastTimeouts = {}

\* A user gesture needs the pointer: none starts while a drag is under way.
NoDrag == draggedIndex = <<>>

\* FileList keeps its local state while it stays rendered and starts afresh
\* (its pending XHR callbacks then address a dead component) otherwise.
FileListAfter(fs, url) ==
  IF FileListMounted(fs, url)
  THEN UNCHANGED <<draggedIndex, isPreparing, isUploading, isMerging,
                   uploadProgress, xhrs>>
  ELSE FreshFileList

\* The locals of an invocation of handleMergeClick that has returned are
\* garbage; they are kept for inspection until the user acts again.
HasReturned(p) == p \in {"Failed", "Succeeded"}
ClosureAfterUserAction ==
  IF HasReturned(phase)
  THEN /\ capFiles' = <<>>
       /\ uploadDetails' = <<>>
       /\ uploadResults' = NoResults
       /\ netRequests' = {}
       /\ mergeReq' = <<>>
       /\ failToasts' = 0
  ELSE UNCHANGED closureVars

\* ------------------------------------------------- page.tsx: the handlers

HandleFilesSelected(selectedFiles) ==
  /\ ~Truthy(mergedPdfUrl)          \* FileUpload is rendered
  /\ NoDrag
  /\ LET newFiles == NewFiles(files, selectedFiles)
     IN /\ Len(files) + Len(newFiles) <= MaxFiles
        /\ files' = files \o newFiles
  /\ emitted' = FilterSelected(files, selectedFiles).toasts
  /\ selected' = selectedFiles
  /\ UNCHANGED toastVars
  /\ answered' = <<>>
  /\ UNCHANGED isDownloading
  /\ ClosureAfterUserAction
  /\ UNCHANGED <<apiUrl, mergedPdfUrl, draggedIndex, isPreparing, isUploading,
                 isMerging, uploadProgress, xhrs, phase, attempt>>

\* handleRemoveFile behind a remove button that is never disabled
HandleRemoveFileAlways(fileName) ==
  /\ FileListMounted(files, mergedPdfUrl)
  /\ NoDrag
  /\ \E f \in Range(files) : f.name = fileName
  /\ files' = Filter(files, {i \in DOMAIN files : files[i].name # fileName})
  /\ FileListAfter(files', mergedPdfUrl)
  /\ emitted' = <<>>
  /\ selected' = <<>>
  /\ UNCHANGED toastVars
  /\ answered' = <<>>
  /\ UNCHANGED isDownloading
  /\ ClosureAfterUserAction
  /\ UNCHANGED <<apiUrl, mergedPdfUrl, phase, attempt>>

HandleRemoveFile(fileName) ==
  /\ FileListMounted(files, mergedPdfUrl)
  /\ ~isLoading                     \* the remove button is enabled
  /\ NoDrag
  /\ \E f \in Range(files) : f.name = fileName
  /\ files' = Filter(files, {i \in DOMAIN files : files[i].name # fileName})
  /\ FileListAfter(files', mergedPdfUrl)
  /\ emitted' = <<>>
  /\ selected' = <<>>
  /\ UNCHANGED toastVars
  /\ answered' = <<>>
  /\ UNCHANGED isDownloading
  /\ ClosureAfterUserAction
  /\ UNCHANGED <<apiUrl, mergedPdfUrl, phase, attempt>>

HandleClearAll ==
  /\ FileListMounted(files, mergedPdfUrl)
  /\ ~isLoading                     \* the clear button is enabled
  /\ NoDrag
  /\ files' = <<>>
  /\ FileListAfter(files', mergedPdfUrl)
  /\ emitted' = <<>>
  /\ selected' = <<>>
  /\ UNCHANGED toastVars
  /\ answered' = <<>>
  /\ UNCHANGED isDownloading
  /\ phase' = "Idle"
  /\ ClosureAfterUserAction
  /\ UNCHANGED <<apiUrl, mergedPdfUrl, attempt>>

HandleStartOver ==
  /\ Truthy(mergedPdfUrl)           \* the download view is rendered
  /\ ~isDownloading                 \* the button is enabled
  /\ mergedPdfUrl' = <<>>
  /\ files' = <<>>
  /\ FileListAfter(files', mergedPdfUrl')
  /\ emitted' = <<>>
  /\ selected' = <<>>
  /\ UNCHANGED toastVars
  /\ answered' = <<>>
  /\ UNCHANGED isDownloading
  /\ phase' = "Idle"
  /\ ClosureAfterUserAction
  /\ UNCHANGED <<apiUrl, attempt>>

\* handleDownload up to the await of fetch(url)
HandleDownload ==
  /\ Truthy(mergedPdfUrl)           \* the download view is rendered
  /\ ~isDownloading                 \* the button is enabled
  /\ isDownloading' = TRUE
  /\ emitted' = <<Toast("Iniciando o download...", "default", <<>>)>>
  /\ selected' = <<>>
  /\ UNCHANGED toastVars
  /\ answered' = <<>>
  /\ ClosureAfterUserAction
  /\ UNCHANGED <<apiUrl, pageVars, draggedIndex, flagVars, uploadProgress,
                 xhrs, phase, attempt>>

\* fetch(url) settles and handleDownload resumes: the file is saved when the
\* response is ok and could be read, "Falha no Download" is shown otherwise.
DownloadSettles(ok) ==
  /\ isDownloading
  /\ isDownloading' = FALSE
  /\ emitted' = IF ok THEN <<>>
                ELSE <<Toast("Falha no Download", "destructive", <<>>)>>
  /\ selected' = <<>>
  /\ UNCHANGED toastVars
  /\ answered' = <<>>
  /\ UNCHANGED <<apiUrl, pageVars, draggedIndex, flagVars, uploadProgress,
                 xhrs, attemptVars>>

\* ------------------------------------------- FileList.tsx: drag and drop

HandleDragStart(index) ==
  /\ FileListMounted(files, mergedPdfUrl)
  /\ ~isLoading                     \* draggable={!isLoading}
  /\ NoDrag
  /\ index \in 0..(Len(files) - 1)
  /\ draggedIndex' = <<index>>
  /\ emitted' = <<>>
  /\ selected' = <<>>
  /\ UNCHANGED toastVars
  /\ answered' = <<>>
  /\ UNCHANGED isDownloading
  /\ ClosureAfterUserAction
  /\ UNCHANGED <<apiUrl, pageVars, flagVars, uploadProgress, xhrs, phase,
                 attempt>>

HandleDragEnter(index) ==
  /\ FileListMounted(files, mergedPdfUrl)
  /\ ~isLoading
  /\ index \in 0..(Len(files) - 1)
  /\ IF draggedIndex = <<>> \/ draggedIndex = <<index>>
     THEN UNCHANGED <<files, draggedIndex>>
     ELSE /\ files' = Reordered(files, draggedIndex[1], index)
          /\ draggedIndex' = <<index>>
  /\ emitted' = <<>>
  /\ selected' = <<>>
  /\ UNCHANGED toastVars
  /\ answered' = <<>>
  /\ UNCHANGED isDownloading
  /\ ClosureAfterUserAction
  /\ UNCHANGED <<apiUrl, mergedPdfUrl, flagVars, uploadProgress, xhrs, phase,
                 attempt>>

HandleDragEnd ==
  /\ FileListMounted(files, mergedPdfUrl)
  /\ ~NoDrag
  /\ draggedIndex' = <<>>
  /\ emitted' = <<>>
  /\ selected' = <<>>
  /\ UNCHANGED toastVars
  /\ answered' = <<>>
  /\ UNCHANGED isDownloading
  /\ ClosureAfterUserAction
  /\ UNCHANGED <<apiUrl, pageVars, flagVars, uploadProgress, xhrs, phase,
                 attempt>>

\* --------------------------------------- FileList.tsx: handleMergeClick

\* the toast that opens phase 2
SendingToast == Toast("Enviando arquivos...", "default", <<>>)

\* a catch block that also calls onClearAll
FailClearsBatch(error) ==
  /\ phase' = "Failed"
  /\ emitted' = CatchToasts(error)
  /\ failToasts' = failToasts + Len(CatchToasts(error))
  /\ isPreparing' = FinallyFlags[1]
  /\ isUploading' = FinallyFlags[2]
  /\ isMerging' = FinallyFlags[3]
  /\ files' = <<>>
  /\ UNCHANGED <<mergedPdfUrl, netRequests, mergeReq>>

\* catch + finally: one notification, every loading flag cleared; `before`
\* are the toasts the same run of handleMergeClick has shown before the throw
FailAfter(before, error) ==
  /\ phase' = "Failed"
  /\ emitted' = before \o CatchToasts(error)
  /\ failToasts' = failToasts + Len(CatchToasts(error))
  /\ isPreparing' = FinallyFlags[1]
  /\ isUploading' = FinallyFlags[2]
  /\ isMerging' = FinallyFlags[3]
  /\ UNCHANGED <<files, mergedPdfUrl, netRequests, mergeReq>>

Fail(error) == FailAfter(<<>>, error)

\* Phase 3 without setIsUploading(false)
PhaseThreeAfterKeepsUploading(before, details) ==
  LET orderedKeys == OrderedKeys(capFiles, details)
      shown == Append(before, Toast("Envio completo!", "default", <<>>))
  IN IF orderedKeys.threw
     THEN FailAfter(shown, orderedKeys.error)
     ELSE /\ phase' = "Merging"
          /\ isPreparing' = FALSE
          /\ isUploading' = TRUE
          /\ isMerging' = TRUE
          /\ emitted' = shown
          /\ mergeReq' = <<orderedKeys.value>>
          /\ netRequests' = netRequests \cup (IF apiUrl THEN {"/merge"} ELSE {})
          /\ UNCHANGED <<files, mergedPdfUrl, failToasts>>

\* Phase 3 up to the await of triggerPdfMerge
PhaseThreeAfter(before, details) ==
  LET orderedKeys == OrderedKeys(capFiles, details)
      shown == Append(before, Toast("Envio completo!", "default", <<>>))
  IN IF orderedKeys.threw
     THEN FailAfter(shown, orderedKeys.error)
     ELSE /\ phase' = "Merging"
          /\ isPreparing' = FALSE
          /\ isUploading' = FALSE
          /\ isMerging' = TRUE
          /\ emitted' = shown
          /\ mergeReq' = <<orderedKeys.value>>
          /\ netRequests' = netRequests \cup (IF apiUrl THEN {"/merge"} ELSE {})
          /\ UNCHANGED <<files, mergedPdfUrl, failToasts>>

PhaseThree(details) == PhaseThreeAfter(<<>>, details)

\* files.length < 1
TooFewBelowOne(fs) == Len(fs) < 1

\* files.length < 2
TooFew(fs) == Len(fs) < 2

\* The body of handleMergeClick up to the await of getUploadUrls.
HandleMergeClick ==
  /\ selected' = <<>>
  /\ UNCHANGED toastVars
  /\ answered' = <<>>
  /\ UNCHANGED isDownloading
  /\ IF TooFew(files)
     THEN /\ emitted' = <<Toast("Arquivos insuficientes", "destructive", <<>>)>>
          /\ UNCHANGED <<apiUrl, pageVars, draggedIndex, flagVars,
                         uploadProgress, xhrs, attemptVars>>
     ELSE /\ attempt < MaxAttempts
          /\ Cardinality(xhrs) <= MaxStale
          /\ attempt' = attempt + 1
          /\ phase' = "RequestingGrants"
          /\ isPreparing' = TRUE
          /\ emitted' = <<Toast("Preparando envios...", "default", <<>>)>>
          /\ capFiles' = files
          /\ uploadDetails' = <<>>
          /\ uploadResults' = NoResults
          /\ netRequests' = IF apiUrl THEN {"/upload"} ELSE {}
          /\ mergeReq' = <<>>
          /\ failToasts' = 0
          /\ UNCHANGED <<apiUrl, pageVars, draggedIndex, isUploading,
                         isMerging, uploadProgress, xhrs>>

\* The merge button with disabled={files.length < 2}
MergeButtonClickWhileLoading ==
  /\ FileListMounted(files, mergedPdfUrl)
  /\ NoDrag
  /\ ~(Len(files) < 2)
  /\ HandleMergeClick

\* The merge button: disabled={isLoading || files.length < 2}
MergeButtonClick ==
  /\ FileListMounted(files, mergedPdfUrl)
  /\ NoDrag
  /\ ~(isLoading \/ Len(files) < 2)   \* the button is enabled
  /\ HandleMergeClick

\* Phase 2 with Promise.all not awaited: phase 3 follows at once.
StartUploadsUnawaited(details) ==
  LET matched == {i \in DOMAIN details : FindFile(capFiles, details[i]) # 0}
      missing == DOMAIN details \ matched
      sent == {Xhr(attempt, i, capFiles[FindFile(capFiles, details[i])].name, 0,
                   details[i].key) : i \in matched}
  IN /\ uploadDetails' = details
     /\ uploadProgress' = NoProgress
     /\ xhrs' = xhrs \cup sent
     /\ IF missing # {}
        THEN LET i == CHOOSE m \in missing : \A o \in missing : m <= o
             IN Fail(<<"Nao foi possivel encontrar os dados do arquivo para ",
                       details[i].originalFileName>>)
        ELSE PhaseThree(details)

\* Phase 2 without setUploadProgress({}).
StartUploadsKeepsProgress(details) ==
  LET matched == {i \in DOMAIN details : FindFile(capFiles, details[i]) # 0}
      missing == DOMAIN details \ matched
      sent == {Xhr(attempt, i, capFiles[FindFile(capFiles, details[i])].name, 0,
                   details[i].key) : i \in matched}
  IN /\ uploadDetails' = details
     /\ UNCHANGED uploadProgress
     /\ xhrs' = xhrs \cup sent
     /\ IF missing # {}
        THEN LET i == CHOOSE m \in missing : \A o \in missing : m <= o
             IN FailAfter(<<SendingToast>>,
                          <<"Nao foi possivel encontrar os dados do arquivo para ",
                            details[i].originalFileName>>)
        ELSE IF details = <<>>
        THEN PhaseThreeAfter(<<SendingToast>>, details)
        ELSE /\ phase' = "Uploading"
             /\ isPreparing' = FALSE
             /\ isUploading' = TRUE
             /\ UNCHANGED isMerging
             /\ emitted' = <<SendingToast>>
             /\ UNCHANGED <<files, mergedPdfUrl, netRequests, mergeReq,
                            failToasts>>

\* Phase 2 up to the await of Promise.all: every grant with a file of its
\* name gets its XHR sent; a grant without one rejects Promise.all.
StartUploads(details) ==
  LET matched == {i \in DOMAIN details : FindFile(capFiles, details[i]) # 0}
      missing == DOMAIN details \ matched
      sent == {Xhr(attempt, i, capFiles[FindFile(capFiles, details[i])].name, 0,
                   details[i].key) : i \in matched}
  IN /\ uploadDetails' = details
     /\ uploadProgress' = NoProgress
     /\ xhrs' = xhrs \cup sent
     /\ IF missing # {}
        THEN LET i == CHOOSE m \in missing : \A o \in missing : m <= o
             IN FailAfter(<<SendingToast>>,
                          <<"Nao foi possivel encontrar os dados do arquivo para ",
                            details[i].originalFileName>>)
        ELSE IF details = <<>>
        THEN PhaseThreeAfter(<<SendingToast>>, details)
        ELSE /\ phase' = "Uploading"
             /\ isPreparing' = FALSE
             /\ isUploading' = TRUE
             /\ UNCHANGED isMerging
             /\ emitted' = <<SendingToast>>
             /\ UNCHANGED <<files, mergedPdfUrl, netRequests, mergeReq,
                            failToasts>>

\* getUploadUrls settles and handleMergeClick resumes.
GetUploadUrlsSettles(resp) ==
  /\ phase = "RequestingGrants"
  /\ selected' = <<>>
  /\ UNCHANGED toastVars
  /\ answered' = IF apiUrl THEN <<Answered("getUploadUrls", resp)>> ELSE <<>>
  /\ UNCHANGED isDownloading
  /\ LET uploadDetailsResult == getUploadUrls(apiUrl, resp)
     IN IF uploadDetailsResult.threw
        THEN /\ Fail(uploadDetailsResult.error)
             /\ UNCHANGED <<uploadDetails, uploadProgress, xhrs>>
        ELSE IF ~uploadDetailsResult.value.defined
        THEN \* uploadDetails.map on undefined: TypeError after the resets
             /\ FailAfter(<<SendingToast>>,
                          <<"Cannot read properties of undefined (reading 'map')">>)
             /\ uploadProgress' = NoProgress
             /\ UNCHANGED <<uploadDetails, xhrs>>
        ELSE StartUploads(uploadDetailsResult.value.arr)
  /\ UNCHANGED <<apiUrl, draggedIndex, attempt, capFiles, uploadResults>>

\* The result of x is still recorded for the latest attempt.
OfLatestAttempt(x) == x.att = attempt /\ x.idx \in DOMAIN uploadDetails
\* The rejection of x is handled whether or not the attempt has failed.
AwaitedAfterFailure(x) == x.att = attempt /\ phase \in {"Uploading", "Failed"}
\* The promise of x is still awaited by handleMergeClick.
Awaited(x) == x.att = attempt /\ phase = "Uploading"

\* xhr.upload.onprogress
XhrProgress(x, level, lengthComputable) ==
  /\ x \in xhrs
  /\ level >= x.loaded
  /\ xhrs' = (xhrs \ {x}) \cup {Xhr(x.att, x.idx, x.name, level, x.to)}
  /\ uploadProgress' = IF lengthComputable
                       THEN SetProgress(uploadProgress, x.name, level)
                       ELSE uploadProgress
  /\ emitted' = <<>>
  /\ selected' = <<>>
  /\ UNCHANGED toastVars
  /\ answered' = <<>>
  /\ UNCHANGED isDownloading
  /\ UNCHANGED <<apiUrl, pageVars, draggedIndex, flagVars, attemptVars>>

\* xhr.onload
XhrLoad(x, status) ==
  /\ x \in xhrs
  /\ xhrs' = xhrs \ {x}
  /\ selected' = <<>>
  /\ UNCHANGED toastVars
  /\ answered' = <<>>
  /\ UNCHANGED isDownloading
  /\ uploadResults' = IF OfLatestAttempt(x)
                      THEN Append(uploadResults, Ended(x.idx, status))
                      ELSE uploadResults
  /\ IF StatusOk(status)
     THEN /\ uploadProgress' = SetProgress(uploadProgress, x.name, 100)
          /\ IF Awaited(x) /\ AllFulfilled(uploadResults', uploadDetails)
             THEN PhaseThree(uploadDetails)
             ELSE /\ emitted' = <<>>
                  /\ UNCHANGED <<pageVars, flagVars, phase, netRequests,
                                 mergeReq, failToasts>>
     ELSE /\ UNCHANGED uploadProgress
          /\ IF Awaited(x)
             THEN Fail(<<"Falha no envio de ", x.name>>)
             ELSE /\ emitted' = <<>>
                  /\ UNCHANGED <<pageVars, flagVars, phase, netRequests,
                                 mergeReq, failToasts>>
  /\ UNCHANGED <<apiUrl, draggedIndex, attempt, capFiles, uploadDetails>>

\* xhr.onerror
XhrError(x) ==
  /\ x \in xhrs
  /\ xhrs' = xhrs \ {x}
  /\ selected' = <<>>
  /\ UNCHANGED toastVars
  /\ answered' = <<>>
  /\ UNCHANGED isDownloading
  /\ uploadResults' = IF OfLatestAttempt(x)
                      THEN Append(uploadResults, Ended(x.idx, NetworkErrorStatus))
                      ELSE uploadResults
  /\ IF Awaited(x)
     THEN Fail(<<"Erro de rede durante o envio.">>)
     ELSE /\ emitted' = <<>>
          /\ UNCHANGED <<pageVars, flagVars, phase, netRequests, mergeReq,
                         failToasts>>
  /\ UNCHANGED <<apiUrl, draggedIndex, uploadProgress, attempt, capFiles,
                 uploadDetails>>

\* The request ends with an 'abort' event (the browser cancels the load):
\* no handler is registered for it, so the promise of the upload is neither
\* resolved nor rejected.
XhrAbort(x) ==
  /\ x \in xhrs
  /\ xhrs' = xhrs \ {x}
  /\ emitted' = <<>>
  /\ selected' = <<>>
  /\ UNCHANGED toastVars
  /\ answered' = <<>>
  /\ UNCHANGED isDownloading
  /\ UNCHANGED <<apiUrl, pageVars, draggedIndex, flagVars, uploadProgress,
                 attemptVars>>

\* page.tsx handleMergeSuccess, as called from handleMergeClick
HandleMergeSuccess(downloadUrl) ==
  /\ mergedPdfUrl' = downloadUrl
  /\ files' = <<>>

\* triggerPdfMerge settles and handleMergeClick resumes.
TriggerPdfMergeSettles(resp) ==
  /\ phase = "Merging"
  /\ selected' = <<>>
  /\ UNCHANGED toastVars
  /\ answered' = IF apiUrl THEN <<Answered("triggerPdfMerge", resp)>> ELSE <<>>
  /\ UNCHANGED isDownloading
  /\ LET result == triggerPdfMerge(apiUrl, resp)
     IN IF result.threw
        THEN /\ Fail(result.error)
             /\ UNCHANGED <<draggedIndex, uploadProgress, xhrs>>
        ELSE /\ phase' = "Succeeded"
             /\ emitted' = <<Toast("Os PDFs foram combinados!", "default", <<>>)>>
             /\ HandleMergeSuccess(result.value)
             /\ FileListAfter(files', mergedPdfUrl')
             /\ UNCHANGED <<netRequests, mergeReq, failToasts>>
  /\ UNCHANGED <<apiUrl, attempt, capFiles, uploadDetails, uploadResults>>

\* ------------------------------------------------------------------ Next

FileNames(fs) == [i \in DOMAIN fs |-> fs[i].name]

\* the user edits the batch
BatchStep(selections) ==
  \/ \E selectedFiles \in selections : HandleFilesSelected(selectedFiles)
  \/ \E fileName \in Names : HandleRemoveFile(fileName)
  \/ HandleClearAll
  \/ \E index \in 0..(MaxFiles - 1) : HandleDragStart(index)
  \/ \E index \in 0..(MaxFiles - 1) : HandleDragEnter(index)
  \/ HandleDragEnd

\* the network answers
NetworkStep ==
  \/ \E resp \in UploadResponses(FileNames(capFiles), attempt) :
       GetUploadUrlsSettles(resp)
  \/ \E x \in xhrs, status \in UploadStatuses : XhrLoad(x, status)
  \/ \E x \in xhrs : XhrError(x)
  \/ \E resp \in MergeResponses(attempt) : TriggerPdfMergeSettles(resp)

\* upload progress events
ProgressStep ==
  \E x \in xhrs, level \in ProgressLevels, lengthComputable \in BOOLEAN :
    XhrProgress(x, level, lengthComputable)

\* The page as the user drives it; uploads complete without intermediate
\* progress events.
Next ==
  \/ BatchStep(AttemptSelections)
  \/ HandleStartOver
  \/ HandleDownload
  \/ \E ok \in BOOLEAN : DownloadSettles(ok)
  \/ MergeButtonClick
  \/ NetworkStep

Spec == Init /\ [][Next]_vars

\* The batch alone, under every selection of up to MaxSel files.
NextBatch == BatchStep(Selections)

SpecBatch == Init /\ [][NextBatch]_vars

\* handleMergeClick called whatever the length of the batch, as a test of
\* the handler calls it.
HandleMergeClickCalled ==
  /\ FileListMounted(files, mergedPdfUrl)
  /\ NoDrag
  /\ ~isLoading
  /\ HandleMergeClick

NextCalled ==
  \/ Next
  \/ HandleMergeClickCalled

SpecCalled == Init /\ [][NextCalled]_vars

\* Grant lists that the sanity checks of phases 2 and 3 provide for: the
\* right one, one without a grant for the last file, one with a grant for a
\* file that was not sent, one with such a grant in place of the first
\* file's, and one whose first grant has no key.
FaultyGrants(fileNames, id) ==
  LET good == handle_generate_urls(fileNames, id)
      n == Len(good)
      stray == Grant("x.pdf", <<"uploads", id, n + 1, "x.pdf">>, TRUE)
  IN IF n = 0 THEN {good}
     ELSE { good,
            SubSeq(good, 1, n - 1),
            Append(good, stray),
            <<stray>> \o Tail(good),
            <<Grant(good[1].originalFileName, <<>>, FALSE)>> \o Tail(good) }

FaultyUploadResponses(fileNames, id) ==
  {Response("ok", JsonBody({"uploads"}, grants, <<>>, "")) :
     grants \in FaultyGrants(fileNames, id)}

\* Merge attempts against a service whose grant lists may be faulty.
NextFaulty ==
  \/ \E selectedFiles \in AttemptSelections : HandleFilesSelected(selectedFiles)
  \/ MergeButtonClick
  \/ \E resp \in FaultyUploadResponses(FileNames(capFiles), attempt) :
       GetUploadUrlsSettles(resp)
  \/ \E x \in xhrs, status \in UploadStatuses : XhrLoad(x, status)
  \/ \E x \in xhrs : XhrError(x)
  \/ \E resp \in MergeResponses(attempt) : TriggerPdfMergeSettles(resp)

SpecFaulty == Init /\ [][NextFaulty]_vars

\* One file at a time, of two names.
ProgressSelections ==
  {<<f>> : f \in {g \in SmallPdfs : g.name \in {"a.pdf", "b.pdf"}}}

\* Merge attempts with the progress events of their uploads.
NextProgress ==
  \/ \E selectedFiles \in ProgressSelections : HandleFilesSelected(selectedFiles)
  \/ MergeButtonClick
  \/ NetworkStep
  \/ ProgressStep

SpecProgress == Init /\ [][NextProgress]_vars

\* Merge attempts in which every network operation ends, in any of the ways
\* the browser can end it.
EveryOperationEnds ==
  \/ NetworkStep
  \/ \E x \in xhrs : XhrAbort(x)

NextLive ==
  \/ \E selectedFiles \in ProgressSelections : HandleFilesSelected(selectedFiles)
  \/ MergeButtonClick
  \/ EveryOperationEnds

SpecLive == Init /\ [][NextLive]_vars /\ WF_vars(EveryOperationEnds)

\* ------------------------------------------ use-toast.ts: the toast store
\* The notifications of the merge page are recorded in `emitted`; the store
\* that holds them for display is explored on its own, under SpecToast.

TOAST_LIMIT == 1
MaxToasts == 4      \* toast() calls explored per behaviour

ToastTitles == {"Preparando envios...", "Falha na operacao"}
\* an absent toastId
NoToastId == 0

ToasterToast(id, title, open) == [id |-> id, title |-> title, open |-> open]
AddToast(toast) == [type |-> "ADD_TOAST", toast |-> toast, toastId |-> NoToastId]
\* toast is partial: `has` names the properties it carries besides id
UpdateToast(toast) ==
  [type |-> "UPDATE_TOAST", toast |-> toast, toastId |-> NoToastId]
PartialToast(id, has, title, open) ==
  [id |-> id, has |-> has, title |-> title, open |-> open]
DismissToast(toastId) ==
  [type |-> "DISMISS_TOAST", toast |-> <<>>, toastId |-> toastId]
RemoveToast(toastId) ==
  [type |-> "REMOVE_TOAST", toast |-> <<>>, toastId |-> toastId]

\* Array.prototype.slice(0, n)
SliceTo(s, n) == SubSeq(s, 1, IF Len(s) < n THEN Len(s) ELSE n)

\* { ...t, ...action.toast }
Spread(t, partial) ==
  ToasterToast(t.id,
               IF "title" \in partial.has THEN partial.title ELSE t.title,
               IF "open" \in partial.has THEN partial.open ELSE t.open)

\* the reducer with ADD_TOAST putting the new toast behind the others
reducerAddsLast(state, action) ==
  IF action.type = "ADD_TOAST"
    THEN [state EXCEPT !.toasts = SliceTo(Append(state.toasts, action.toast),
                                          TOAST_LIMIT)]
  ELSE IF action.type = "UPDATE_TOAST"
    THEN [state EXCEPT !.toasts =
            [i \in DOMAIN state.toasts |->
               IF state.toasts[i].id = action.toast.id
               THEN Spread(state.toasts[i], action.toast)
               ELSE state.toasts[i]]]
  ELSE IF action.type = "DISMISS_TOAST"
    THEN [state EXCEPT !.toasts =
            [i \in DOMAIN state.toasts |->
               IF state.toasts[i].id = action.toastId \/ action.toastId = NoToastId
               THEN [state.toasts[i] EXCEPT !.open = FALSE]
               ELSE state.toasts[i]]]
  ELSE IF action.toastId = NoToastId
    THEN [state EXCEPT !.toasts = <<>>]
  ELSE [state EXCEPT !.toasts =
          Filter(state.toasts, {i \in DOMAIN state.toasts :
                                  state.toasts[i].id # action.toastId})]

\* reducer: the state after an action (the timers DISMISS_TOAST starts are in
\* RemoveQueueAfter)
reducer(state, action) ==
  IF action.type = "ADD_TOAST"
    THEN [state EXCEPT !.toasts = SliceTo(<<action.toast>> \o state.toasts,
                                          TOAST_LIMIT)]
  ELSE IF action.type = "UPDATE_TOAST"
    THEN [state EXCEPT !.toasts =
            [i \in DOMAIN state.toasts |->
               IF state.toasts[i].id = action.toast.id
               THEN Spread(state.toasts[i], action.toast)
               ELSE state.toasts[i]]]
  ELSE IF action.type = "DISMISS_TOAST"
    THEN [state EXCEPT !.toasts =
            [i \in DOMAIN state.toasts |->
               IF state.toasts[i].id = action.toastId \/ action.toastId = NoToastId
               THEN [state.toasts[i] EXCEPT !.open = FALSE]
               ELSE state.toasts[i]]]
  ELSE IF action.toastId = NoToastId
    THEN [state EXCEPT !.toasts = <<>>]
  ELSE [state EXCEPT !.toasts =
          Filter(state.toasts, {i \in DOMAIN state.toasts :
                                  state.toasts[i].id # action.toastId})]

\* addToRemoveQueue as DISMISS_TOAST calls it: for toastId, or for every
\* toast of the state when toastId is absent
RemoveQueueAfter(timeouts, state, toastId) ==
  IF toastId # NoToastId THEN timeouts \cup {toastId}
  ELSE timeouts \cup {state.toasts[i].id : i \in DOMAIN state.toasts}

\* toast(props): a new id, then ADD_TOAST (the wrap of the counter at
\* Number.MAX_SAFE_INTEGER lies beyond MaxToasts)
ToastCalled(title) ==
  /\ count < MaxToasts
  /\ count' = count + 1
  /\ memoryState' = reducer(memoryState,
                            AddToast(ToasterToast(count', title, TRUE)))
  /\ UNCHANGED <<toastTimeouts, mergeVars>>

\* update(props) of the handle that toast() returned for id
ToastUpdated(id, has, title, open) ==
  /\ id \in 1..count
  /\ memoryState' = reducer(memoryState,
                            UpdateToast(PartialToast(id, has, title, open)))
  /\ UNCHANGED <<count, toastTimeouts, mergeVars>>

\* dismiss() of a handle, onOpenChange(false), or useToast().dismiss(toastId?)
ToastDismissed(toastId) ==
  /\ toastId \in {NoToastId} \cup 1..count
  /\ toastTimeouts' = RemoveQueueAfter(toastTimeouts, memoryState, toastId)
  /\ memoryState' = reducer(memoryState, DismissToast(toastId))
  /\ UNCHANGED <<count, mergeVars>>

\* the timer of addToRemoveQueue fires
RemoveTimerFires(toastId) ==
  /\ toastId \in toastTimeouts
  /\ toastTimeouts' = toastTimeouts \ {toastId}
  /\ memoryState' = reducer(memoryState, RemoveToast(toastId))
  /\ UNCHANGED <<count, mergeVars>>

NextToast ==
  \/ \E title \in ToastTitles : ToastCalled(title)
  \/ \E id \in 1..MaxToasts, has \in SUBSET {"title", "open"},
        title \in ToastTitles, open \in BOOLEAN :
       ToastUpdated(id, has, title, open)
  \/ \E toastId \in 0..MaxToasts : ToastDismissed(toastId)
  \/ \E toastId \in 1..MaxToasts : RemoveTimerFires(toastId)

SpecToast == Init /\ [][NextToast]_vars

\* ------------------------------------------------------------- properties

InFlight == phase \in {"RequestingGrants", "Uploading", "Merging"}
IsPrefix(s, t) == Len(s) <= Len(t) /\ SubSeq(t, 1, Len(s)) = s
UniqueNames(fs) == \A i, j \in DOMAIN fs : fs[i].name = fs[j].name => i = j
Is2xx(status) == status \in 200..299
\* the grants of the running attempt named like file f
GrantsNamed(f) ==
  {g \in DOMAIN uploadDetails : uploadDetails[g].originalFileName = f.name}

\* C1: while the merge request is out, the fileKeys passed to triggerPdfMerge
\* hold at every position i the key of a grant whose originalFileName is the
\* name of the i-th file of the batch as displayed (of the only such grant when
\* the names are unique), in whatever order the uploads have ended.
C1_KeysInDisplayOrder ==
  phase = "Merging" =>
    /\ mergeReq # <<>>
    /\ \A i \in DOMAIN mergeReq[1] :
         /\ i \in DOMAIN files
         /\ \E g \in GrantsNamed(files[i]) : uploadDetails[g].key = mergeReq[1][i]
         /\ UniqueNames(files) =>
              \A g \in GrantsNamed(files[i]) :
                uploadDetails[g].key = mergeReq[1][i]

\* The merge request of a batch of distinct names is out although the upload
\* of a later file ended before the upload of an earlier one.
C1_Witness ==
  /\ phase = "Merging"
  /\ mergeReq # <<>>
  /\ UniqueNames(files)
  /\ Len(uploadResults) >= 2
  /\ uploadResults[1].idx > uploadResults[2].idx

\* C2: a merge request of an attempt exists only when every grant of the
\* attempt has an upload that ended with a 2xx status and every captured file
\* has such a grant; once an upload of the attempt has ended otherwise, the
\* attempt has no merge request, whatever its other uploads do afterwards.
C2_MergeOnlyAfterAllUploadsOk ==
  LET merged == mergeReq # <<>> \/ "/merge" \in netRequests
      failed == \E k \in DOMAIN uploadResults : ~Is2xx(uploadResults[k].status)
  IN /\ merged =>
          /\ \A g \in DOMAIN uploadDetails :
               \E k \in DOMAIN uploadResults :
                 uploadResults[k].idx = g /\ Is2xx(uploadResults[k].status)
          /\ \A i \in DOMAIN capFiles : GrantsNamed(capFiles[i]) # {}
          /\ capFiles # <<>>
     /\ failed => ~merged

\* An upload of the attempt has failed, a sibling has succeeded after it, and
\* no merge request was sent.
C2_Witness ==
  /\ phase = "Failed"
  /\ Len(uploadResults) >= 2
  /\ ~Is2xx(uploadResults[1].status)
  /\ Is2xx(uploadResults[2].status)
  /\ mergeReq = <<>>
  /\ "/merge" \notin netRequests

\* the forward moves of one attempt
ForwardMoves ==
  {<<"Idle", "RequestingGrants">>, <<"RequestingGrants", "Uploading">>,
   <<"Uploading", "Merging">>, <<"Merging", "Succeeded">>,
   <<"RequestingGrants", "Failed">>, <<"Uploading", "Failed">>,
   <<"Merging", "Failed">>}
\* the uploads of the running attempt, in flight or ended
UploadsOf(xs, results, att) ==
  {x.idx : x \in {y \in xs : y.att = att}} \cup
  {results[k].idx : k \in DOMAIN results}

\* C3: within an attempt the phase changes only by a forward move
\* Idle -> RequestingGrants -> Uploading -> Merging -> Succeeded or from a
\* non-Idle phase to Failed, the loading flags name the phase, a new attempt
\* starts only from Idle or a finished attempt, no upload of an attempt is
\* started before its grants are received, and only Merging leads to
\* Succeeded (handleMergeSuccess).
C3_PhaseOrder ==
  [][ /\ attempt' = attempt /\ phase' # phase =>
           \/ <<phase, phase'>> \in ForwardMoves
           \/ HasReturned(phase) /\ phase' = "Idle"
      /\ attempt' # attempt =>
           /\ attempt' = attempt + 1
           /\ ~InFlight
           /\ phase' = "RequestingGrants"
      /\ isPreparing' = (phase' = "RequestingGrants")
      /\ isUploading' = (phase' = "Uploading")
      /\ isMerging' = (phase' = "Merging")
      /\ phase' = "RequestingGrants" =>
           UploadsOf(xhrs', uploadResults', attempt') = {}
      /\ UploadsOf(xhrs', uploadResults', attempt') \
           (IF attempt' = attempt
            THEN UploadsOf(xhrs, uploadResults, attempt) ELSE {}) # {} =>
           /\ phase = "RequestingGrants" /\ attempt' = attempt
           /\ uploadDetails = <<>> /\ uploadDetails' # <<>>
      /\ (phase' = "Succeeded" /\ phase # "Succeeded") \/
         (Truthy(mergedPdfUrl') /\ mergedPdfUrl' # mergedPdfUrl) =>
           phase = "Merging" /\ phase' = "Succeeded"
    ]_vars

\* An attempt has gone all the way and the download view shows.
C3_Witness ==
  /\ phase = "Succeeded"
  /\ Truthy(mergedPdfUrl)
  /\ Len(uploadResults) = Len(capFiles)

\* C4 as stated: a failure leaves the batch exactly as it was when the
\* attempt started and mergedPdfUrl null, and the batch becomes empty only in
\* a step of handleMergeSuccess (phase Succeeded afterwards) or of
\* handleStartOver or handleClearAll (phase Idle afterwards).
C4_AsStated ==
  [][ /\ phase' = "Failed" /\ phase # "Failed" =>
           files' = capFiles /\ mergedPdfUrl' = <<>>
      /\ files # <<>> /\ files' = <<>> => phase' \in {"Succeeded", "Idle"}
    ]_vars

\* C4 amended: the step in which an attempt fails changes neither the batch
\* nor mergedPdfUrl, which stays falsy; the batch then begins with the files
\* of the attempt's start in their order (followed by what handleFilesSelected
\* appended meanwhile); and a non-empty batch becomes empty only by
\* handleMergeSuccess or, with no attempt running, by handleClearAll or a
\* handleRemoveFile of the only name left.
C4_FailureKeepsBatch ==
  [][ /\ phase' = "Failed" /\ phase # "Failed" =>
           /\ files' = files
           /\ mergedPdfUrl' = mergedPdfUrl
           /\ ~Truthy(mergedPdfUrl')
           /\ IsPrefix(capFiles, files')
      /\ files # <<>> /\ files' = <<>> =>
           \/ phase = "Merging" /\ phase' = "Succeeded"
           \/ /\ ~InFlight /\ ~isLoading
              /\ phase' \in {phase, "Idle"}
              /\ mergedPdfUrl' = mergedPdfUrl
              /\ \/ phase' = "Idle"
                 \/ \A i \in DOMAIN files : files[i].name = files[1].name
    ]_vars

\* An attempt has failed with a batch that grew while it ran.
C4_Witness ==
  /\ phase = "Failed"
  /\ capFiles # <<>>
  /\ Len(files) > Len(capFiles)
  /\ IsPrefix(capFiles, files)

\* C5: a failed attempt has shown exactly one failure notification, however
\* many of its uploads failed, no other attempt has shown any, and after the
\* failure isPreparing, isUploading and isMerging are all false.
C5_OneFailureToast ==
  /\ failToasts <= 1
  /\ phase = "Failed" => ~isPreparing /\ ~isUploading /\ ~isMerging
  /\ phase = "Failed" /\ capFiles # <<>> => failToasts = 1
  /\ phase # "Failed" => failToasts = 0

\* An attempt has failed with two failed uploads and one notification.
C5_Witness ==
  /\ phase = "Failed"
  /\ failToasts = 1
  /\ Len(uploadResults) >= 2
  /\ \A k \in DOMAIN uploadResults : ~Is2xx(uploadResults[k].status)
  /\ ~isLoading

ValidationToast == Toast("Arquivos insuficientes", "destructive", <<>>)
\* the uploads in flight, whatever they have loaded
Sent(xs) == {<<x.att, x.idx>> : x \in xs}

\* C6: a step taken with fewer than two files in the batch starts no attempt:
\* no getUploadUrls or triggerPdfMerge request, no upload, no loading flag;
\* the step that shows the validation notification is taken with fewer than
\* two files and changes nothing else; and every attempt holds two files or
\* more.
C6_TooFewFilesNoAttempt ==
  [][ /\ Len(files) < 2 =>
           /\ attempt' = attempt
           /\ ~isPreparing' /\ ~isUploading' /\ ~isMerging'
           /\ netRequests' \subseteq netRequests
           /\ mergeReq' \in {mergeReq, <<>>}
           /\ Sent(xhrs') \subseteq Sent(xhrs)
           /\ phase' \in {phase, "Idle"}
      /\ emitted' = <<ValidationToast>> /\ emitted' # emitted =>
           /\ Len(files) < 2
           /\ UNCHANGED <<apiUrl, pageVars, draggedIndex, flagVars,
                          uploadProgress, xhrs, attemptVars>>
      /\ attempt' # attempt => Len(files) >= 2 /\ capFiles' = files
    ]_vars

\* handleMergeClick has just been called on a batch of one file.
C6_Witness ==
  /\ emitted = <<ValidationToast>>
  /\ Len(files) = 1
  /\ ~isLoading
  /\ phase = "Idle"
  /\ netRequests = {}

\* C7 as stated: no two files of the batch share a name.
C7_NoTwoFilesShareAName == UniqueNames(files)

RECURSIVE AcceptedBySize(_, _, _)
\* The files of sel that the size rule lets in, in order, when the batch is fs
\* and acc bytes of the selection are in already: a PDF whose name is not in
\* the batch is accepted exactly when batch + acc + its size is within
\* 100*1024*1024 bytes.
AcceptedBySize(fs, sel, acc) ==
  IF sel = <<>> THEN <<>>
  ELSE LET f == Head(sel)
           otherwiseValid ==
             f.type = "application/pdf" /\
             \A i \in DOMAIN fs : fs[i].name # f.name
           fits == SumSizes(fs) + acc + f.size <= 100 * 1024 * 1024
       IN IF otherwiseValid /\ fits
          THEN <<f>> \o AcceptedBySize(fs, Tail(sel), acc + f.size)
          ELSE AcceptedBySize(fs, Tail(sel), acc)

\* C8: handleFilesSelected, given a selection of distinct names, appends to
\* the batch exactly the otherwise valid files that fit in their turn under
\* 100*1024*1024 bytes, in order, later ones included when an earlier one was
\* rejected, and the total size of the batch never exceeds that ceiling.
C8_SizeCeiling ==
  [][ /\ selected' # <<>> /\ UniqueNames(selected') =>
           files' = files \o AcceptedBySize(files, selected', 0)
      /\ SumSizes(files') <= 100 * 1024 * 1024
    ]_vars

\* A selection of two files has had its first file rejected for size and its
\* second accepted, which brought the batch exactly to the ceiling.
C8_Witness ==
  /\ Len(selected) = 2
  /\ emitted = <<Toast("Limite de tamanho excedido", "destructive",
                       <<selected[1].name>>)>>
  /\ files # <<>>
  /\ files[Len(files)] = selected[2]
  /\ SumSizes(files) = 100 * 1024 * 1024

TypeToasts(toasts) ==
  {k \in DOMAIN toasts : toasts[k].title = "Tipo de arquivo invalido"}

\* C9: every file of the batch has type "application/pdf"; handleFilesSelected
\* emits one notification for each selected file of another type, naming it,
\* adds none of them, and still appends the valid files of the selection.
C9_OnlyPdfInBatch ==
  [][ /\ \A i \in DOMAIN files' : files'[i].type = "application/pdf"
      /\ selected' # <<>> =>
           LET others == {i \in DOMAIN selected' :
                            selected'[i].type # "application/pdf"}
               pdfs == Filter(selected', DOMAIN selected' \ others)
           IN /\ Cardinality(TypeToasts(emitted')) = Cardinality(others)
              /\ \A i \in others :
                   \E k \in TypeToasts(emitted') :
                     emitted'[k].about = <<selected'[i].name>>
              /\ IsPrefix(files, files')
              /\ Len(files') <= Len(files) + Len(pdfs)
              /\ UniqueNames(selected') =>
                   files' = files \o AcceptedBySize(files, pdfs, 0)
    ]_vars

\* A selection of an image followed by a PDF has left a notification about
\* the image and the PDF in the batch.
C9_Witness ==
  /\ Len(selected) = 2
  /\ selected[1].type = "image/png"
  /\ selected[2].type = "application/pdf"
  /\ emitted = <<Toast("Tipo de arquivo invalido", "destructive",
                       <<selected[1].name>>)>>
  /\ files # <<>>
  /\ files[Len(files)] = selected[2]

\* C10: in the upload phase of an attempt on distinctly named files there is
\* exactly one grant per captured file and none of another name, and the
\* uploads started are those of the grants, one each.
C10_OneGrantPerFile ==
  phase = "Uploading" /\ UniqueNames(capFiles) =>
    /\ Len(capFiles) >= 2
    /\ Len(uploadDetails) = Len(capFiles)
    /\ \A i \in DOMAIN capFiles : Cardinality(GrantsNamed(capFiles[i])) = 1
    /\ \A g \in DOMAIN uploadDetails :
         \E i \in DOMAIN capFiles :
           capFiles[i].name = uploadDetails[g].originalFileName
    /\ UploadsOf(xhrs, uploadResults, attempt) = DOMAIN uploadDetails

\* Three distinctly named files are being uploaded.
C10_Witness ==
  /\ phase = "Uploading"
  /\ UniqueNames(capFiles)
  /\ Len(capFiles) = 3
  /\ Len(uploadDetails) = 3
  /\ Cardinality(xhrs) = 3

\* the attempt whose grant request the service answered with this key
GrantedTo(key) == key[2]

\* C11: a new attempt starts with no grants and a getUploadUrls request of
\* its own; every upload in flight posts to a destination granted to the
\* attempt that started it, the one of its grant; and every grant held and
\* every key of the merge request was granted to the running attempt.
C11_NoStaleGrant ==
  [][ /\ attempt' # attempt =>
           /\ uploadDetails' = <<>>
           /\ mergeReq' = <<>>
           /\ apiUrl => netRequests' = {"/upload"}
      /\ \A x \in xhrs' :
           /\ GrantedTo(x.to) = x.att
           /\ x.att = attempt' /\ uploadDetails' # <<>> =>
                /\ x.idx \in DOMAIN uploadDetails'
                /\ x.to = uploadDetails'[x.idx].key
      /\ \A g \in DOMAIN uploadDetails' :
           GrantedTo(uploadDetails'[g].key) = attempt'
      /\ mergeReq' # <<>> =>
           \A i \in DOMAIN mergeReq'[1] :
             /\ GrantedTo(mergeReq'[1][i]) = attempt'
             /\ \E g \in DOMAIN uploadDetails' :
                  uploadDetails'[g].key = mergeReq'[1][i]
    ]_vars

\* The second attempt has its merge request out while an upload of the
\* first, failed, attempt is still in flight.
C11_Witness ==
  /\ attempt = 2
  /\ phase = "Merging"
  /\ mergeReq # <<>>
  /\ \E x \in xhrs : x.att = 1

FailureToast(description) == Toast("Falha na operacao", "destructive", description)

\* C12: without an API base URL no grant request, upload or merge request
\* reaches the network and no response is received; an attempt leaves
\* RequestingGrants only for Failed, with the configuration error shown.
C12_ConfigurationError ==
  [][ ~apiUrl =>
        /\ netRequests' = {}
        /\ answered' = <<>>
        /\ xhrs' = {}
        /\ uploadDetails' = <<>>
        /\ mergeReq' = <<>>
        /\ phase' \in {"Idle", "RequestingGrants", "Failed"}
        /\ phase = "RequestingGrants" /\ phase' # phase =>
             /\ phase' = "Failed"
             /\ emitted' = <<FailureToast(<<"Configuration Error">>)>>
    ]_vars

\* An attempt made without an API base URL has failed.
C12_Witness ==
  /\ ~apiUrl
  /\ attempt >= 1
  /\ phase = "Failed"
  /\ emitted = <<FailureToast(<<"Configuration Error">>)>>
  /\ netRequests = {}
  /\ xhrs = {}

\* What the claim has an error response carry: the 'error' field of a JSON
\* body that has one, otherwise the raw text of the body ("responseText"
\* stands for the text of a JSON body), otherwise the status text.
ServicePayload(body) ==
  IF body.kind = "json" /\ "error" \in body.has THEN body.error
  ELSE IF body.kind = "json" THEN "responseText"
  ELSE IF body.kind = "text" THEN body.error
  ELSE "statusText"

ExpectedShape(action, body) ==
  /\ body.kind = "json"
  /\ action = "getUploadUrls" => "uploads" \in body.has
  /\ action = "triggerPdfMerge" => "downloadUrl" \in body.has

\* C14 as stated: when the service has answered with a success status and a
\* body that is not of the expected shape, the attempt is Failed and no value
\* reached the client.
C14_ProtocolError ==
  /\ answered # <<>>
  /\ answered[1].resp.status = "ok"
  /\ ~ExpectedShape(answered[1].action, answered[1].resp.body)
  => /\ phase = "Failed"
     /\ files # <<>>
     /\ mergedPdfUrl # Undefined

\* an upload of the running attempt ends in this step; its entry
UploadEnds == Len(uploadResults') = Len(uploadResults) + 1
EndedNow == uploadResults'[Len(uploadResults')]

\* C15: when an upload of the attempt ends with an HTTP status outside
\* 200..299 and is the first to fail, the attempt fails with a notification
\* naming its file, the batch is unchanged and every loading flag is false;
\* when an upload has failed before, nothing further is reported.
C15_UploadError ==
  [][ UploadEnds /\ ~Is2xx(EndedNow.status) /\ EndedNow.status # 0 =>
        /\ files' = files
        /\ IsPrefix(capFiles, files')
        /\ ~isPreparing' /\ ~isUploading' /\ ~isMerging'
        /\ phase' = "Failed"
        /\ failToasts' = 1
        /\ IF phase = "Uploading"
           THEN /\ \A k \in DOMAIN uploadResults : Is2xx(uploadResults[k].status)
                /\ \E i \in DOMAIN capFiles :
                     /\ capFiles[i].name =
                          uploadDetails[EndedNow.idx].originalFileName
                     /\ emitted' = <<FailureToast(<<"Falha no envio de ",
                                                   capFiles[i].name>>)>>
           ELSE /\ phase = "Failed"
                /\ \E k \in DOMAIN uploadResults :
                     ~Is2xx(uploadResults[k].status)
                /\ emitted' = <<>>
    ]_vars

\* Two uploads of an attempt have been answered with status 300, one after
\* the other, and the batch is as it was.
C15_Witness ==
  /\ phase = "Failed"
  /\ Len(uploadResults) = 2
  /\ uploadResults[1].status = 300
  /\ uploadResults[2].status = 300
  /\ failToasts = 1
  /\ files = capFiles
  /\ emitted = <<>>

\* C16 as stated: when an upload of the attempt ends in xhr.onerror and the
\* attempt fails by it, the notification shown carries the CORS hint.
C16_CorsHint ==
  [][ UploadEnds /\ EndedNow.status = 0 /\ phase = "Uploading" =>
        /\ phase' = "Failed"
        /\ emitted' = <<FailureToast(<<"CORS">>)>>
    ]_vars

\* C17: while an attempt is in flight (a loading flag is set) no step removes
\* a file from the batch, clears it or reorders it, and no drag starts: the
\* batch changes only by files appended by handleFilesSelected, or by the
\* success of the attempt.
C17_NoEditInFlight ==
  [][ InFlight \/ isLoading =>
        /\ InFlight /\ isLoading
        /\ draggedIndex = <<>> /\ draggedIndex' = <<>>
        /\ \/ IsPrefix(files, files')
           \/ phase = "Merging" /\ phase' = "Succeeded" /\ files' = <<>>
        /\ Len(files') > Len(files) => selected' # <<>>
    ]_vars

\* Three files are being uploaded, one upload has ended, and the batch is the
\* one the attempt started with.
C17_Witness ==
  /\ phase = "Uploading"
  /\ isUploading
  /\ Len(files) = 3
  /\ files = capFiles
  /\ Len(uploadResults) = 1
  /\ Cardinality(xhrs) = 2

\* C18 as stated: the key list of the merge request has one key for each file
\* in the batch displayed while the request is out, in that order: the key
\* of a grant named like the file.
C18_KeysCoverDisplayedBatch ==
  phase = "Merging" =>
    /\ mergeReq # <<>>
    /\ Len(mergeReq[1]) = Len(files)
    /\ \A i \in DOMAIN files :
         \E g \in GrantsNamed(files[i]) : uploadDetails[g].key = mergeReq[1][i]

\* C19 as stated: mergedPdfUrl leaves null only in the step in which a merge
\* request succeeds, for the downloadUrl of the response; once it is not null
\* it changes only by being reset to null by handleStartOver; and no attempt
\* starts while it is not null.
C19_MergedPdfUrlLifecycle ==
  [][ /\ mergedPdfUrl' # mergedPdfUrl /\ mergedPdfUrl' # <<>> =>
           /\ phase = "Merging" /\ phase' = "Succeeded"
           /\ answered' # <<>>
           /\ answered'[1].action = "triggerPdfMerge"
           /\ answered'[1].resp.status = "ok"
           /\ "downloadUrl" \in answered'[1].resp.body.has
           /\ mergedPdfUrl' = answered'[1].resp.body.downloadUrl
      /\ mergedPdfUrl # <<>> /\ mergedPdfUrl' # mergedPdfUrl =>
           /\ mergedPdfUrl' = <<>>
           /\ ~isDownloading
           /\ files' = <<>>
      /\ mergedPdfUrl # <<>> => attempt' = attempt
    ]_vars

\* a grant list is received in this step; the list
GrantsArrive ==
  /\ phase = "RequestingGrants"
  /\ answered' # <<>>
  /\ answered'[1].action = "getUploadUrls"
  /\ answered'[1].resp.status = "ok"
  /\ "uploads" \in answered'[1].resp.body.has
Arrived == answered'[1].resp.body.uploads
\* the grants of a list that name no file of the attempt
Strays(grants) ==
  {g \in DOMAIN grants :
     \A i \in DOMAIN capFiles : capFiles[i].name # grants[g].originalFileName}
\* the files of the attempt that no grant of a list names
Ungranted(grants) ==
  {i \in DOMAIN capFiles :
     \A g \in DOMAIN grants : grants[g].originalFileName # capFiles[i].name}

\* C20 as stated: when the grants arrive and a file of the attempt has no
\* grant of its name, the attempt fails then, in the upload phase.
C20_FileWithoutGrantFailsUpload ==
  [][ GrantsArrive /\ Ungranted(Arrived) # {} => phase' = "Failed" ]_vars

\* C20 amended: in the upload phase a file is looked up by name for every
\* grant. When a grant names no file of the attempt, the attempt fails as the
\* grants arrive, with the match error naming the first such grant, and no
\* merge request. Otherwise the uploads of the grants start, also when a file
\* has no grant; that file is found only when all uploads have succeeded, by
\* the failure of the key list, after "Envio completo!" and with no merge
\* request.
C20_GrantWithoutFileFailsUpload ==
  [][ /\ GrantsArrive =>
           IF Strays(Arrived) # {}
           THEN LET g == CHOOSE m \in Strays(Arrived) :
                           \A o \in Strays(Arrived) : m <= o
                IN /\ phase' = "Failed"
                   /\ emitted' =
                        <<Toast("Enviando arquivos...", "default", <<>>),
                          FailureToast(
                            <<"Nao foi possivel encontrar os dados do arquivo para ",
                              Arrived[g].originalFileName>>)>>
                   /\ mergeReq' = <<>>
           ELSE /\ Arrived # <<>> => phase' = "Uploading"
                /\ UploadsOf(xhrs', uploadResults', attempt') = DOMAIN Arrived
      /\ phase = "Uploading" /\ Ungranted(uploadDetails) # {} =>
           /\ phase' \in {"Uploading", "Failed"}
           /\ mergeReq' = <<>>
           /\ "/merge" \notin netRequests'
           /\ UploadEnds /\ AllFulfilled(uploadResults', uploadDetails) =>
                LET i == CHOOSE m \in Ungranted(uploadDetails) :
                           \A o \in Ungranted(uploadDetails) : m <= o
                    first == CHOOSE m \in DOMAIN capFiles :
                               /\ m \in Ungranted(uploadDetails) \/
                                  \E g \in GrantsNamed(capFiles[m]) :
                                    ~uploadDetails[g].hasKey
                               /\ \A o \in 1..(m - 1) :
                                    /\ o \notin Ungranted(uploadDetails)
                                    /\ \A g \in GrantsNamed(capFiles[o]) :
                                         uploadDetails[g].hasKey
                IN /\ i >= first
                   /\ phase' = "Failed"
                   /\ emitted' =
                        <<Toast("Envio completo!", "default", <<>>),
                          FailureToast(<<"Detalhes do envio ausentes para ",
                                         capFiles[first].name>>)>>
    ]_vars

\* An attempt has failed as its grants arrived, by a grant for x.pdf, which
\* is no file of the attempt.
C20_Witness ==
  /\ phase = "Failed"
  /\ uploadDetails # <<>>
  /\ Strays(uploadDetails) # {}
  /\ emitted = <<Toast("Enviando arquivos...", "default", <<>>),
                 FailureToast(
                   <<"Nao foi possivel encontrar os dados do arquivo para ",
                     "x.pdf">>)>>

\* the step in which the last upload of the attempt succeeds and the merge
\* phase begins
MergePhaseStarts ==
  /\ phase = "Uploading"
  /\ UploadEnds
  /\ AllFulfilled(uploadResults', uploadDetails)
\* file f has no grant of its name with a non-empty key
NoUsableGrant(f) == \A g \in GrantsNamed(f) : ~uploadDetails[g].hasKey
OrderingError(name) ==
  <<Toast("Envio completo!", "default", <<>>),
    FailureToast(<<"Detalhes do envio ausentes para ", name>>)>>

\* C21 as stated: when the merge phase begins and a file of the batch has no
\* grant, or none with a key, the attempt fails with the ordering error and
\* no merge request; and a merge request that is sent holds one non-empty key
\* for each file of the batch.
C21_OneKeyPerFileOfBatch ==
  [][ /\ MergePhaseStarts /\ (\E i \in DOMAIN files : NoUsableGrant(files[i])) =>
           /\ phase' = "Failed"
           /\ \E i \in DOMAIN files : emitted' = OrderingError(files[i].name)
           /\ mergeReq' = <<>>
           /\ "/merge" \notin netRequests'
      /\ mergeReq = <<>> /\ mergeReq' # <<>> =>
           /\ Len(mergeReq'[1]) = Len(files')
           /\ \A k \in DOMAIN mergeReq'[1] : mergeReq'[1][k] # <<>>
    ]_vars

\* the name under which upload idx of the running attempt reports
NameOfUpload(idx) == uploadDetails[idx].originalFileName

\* C22 as stated: in a step of the upload phase every value in uploadProgress
\* lies in 0..100 and none is smaller than the value the file had before, and
\* the file of every upload of the attempt that has succeeded stands at 100.
C22_ProgressMonotone ==
  [][ phase = "Uploading" =>
        /\ \A n \in DOMAIN uploadProgress' :
             /\ uploadProgress'[n] \in 0..100
             /\ n \in DOMAIN uploadProgress =>
                  uploadProgress'[n] >= uploadProgress[n]
        /\ \A k \in DOMAIN uploadResults' :
             Is2xx(uploadResults'[k].status) =>
               /\ NameOfUpload(uploadResults'[k].idx) \in DOMAIN uploadProgress'
               /\ uploadProgress'[NameOfUpload(uploadResults'[k].idx)] = 100
    ]_vars

\* the uploads whose handlers run in this step
Reporting == xhrs \ xhrs'

\* C23 as stated: uploadProgress changes only by being emptied or, in the
\* upload phase, by an upload of the running attempt; and in the upload phase
\* every key of the map is the name of a grant of the running attempt.
C23_OnlyActiveUploadsWrite ==
  [][ /\ uploadProgress' # uploadProgress =>
           \/ uploadProgress' = NoProgress
           \/ /\ phase = "Uploading"
              /\ \A x \in Reporting : x.att = attempt
      /\ phase' = "Uploading" =>
           \A n \in DOMAIN uploadProgress' :
             \E i \in DOMAIN uploadDetails' :
               uploadDetails'[i].originalFileName = n
    ]_vars

\* getUploadUrls returns in this step (an array, or undefined)
GrantsReturn ==
  /\ phase = "RequestingGrants"
  /\ answered' # <<>>
  /\ answered'[1].action = "getUploadUrls"
  /\ answered'[1].resp.status = "ok"
  /\ answered'[1].resp.body.kind = "json"

\* C24 as stated: while an attempt is requesting grants uploadProgress is
\* the empty map.
C24_ResetAtAttemptStart ==
  phase = "RequestingGrants" => uploadProgress = NoProgress

\* C24 amended: the step that starts an attempt leaves uploadProgress as it
\* is; the map is emptied in the step in which getUploadUrls returns, when
\* the upload phase is entered and before an upload of the attempt has
\* written; until then it keeps the values of the previous attempt, and also
\* when getUploadUrls throws, unless an upload left in flight writes.
C24_ResetAtUploadPhase ==
  [][ /\ phase # "RequestingGrants" /\ phase' = "RequestingGrants" =>
           uploadProgress' = uploadProgress
      /\ phase = "RequestingGrants" =>
           IF GrantsReturn
           THEN uploadProgress' = NoProgress
           ELSE Reporting = {} => uploadProgress' = uploadProgress
      /\ phase = "RequestingGrants" /\ phase' = "Uploading" =>
           uploadProgress' = NoProgress
    ]_vars

\* A second attempt is requesting grants and the map still holds values of
\* the first.
C24_Witness ==
  /\ phase = "RequestingGrants"
  /\ attempt = 2
  /\ uploadProgress # NoProgress
  /\ xhrs = {}

\* C25 as stated: when every network operation ends, an attempt that is in
\* flight leads to Succeeded or Failed with the three loading flags false.
C25_AttemptsTerminate ==
  InFlight ~> (HasReturned(phase) /\ ~isPreparing /\ ~isUploading /\ ~isMerging)

\* C26: at most one of isPreparing, isUploading and isMerging is true.
C26_AtMostOneFlag ==
  /\ ~(isPreparing /\ isUploading)
  /\ ~(isPreparing /\ isMerging)
  /\ ~(isUploading /\ isMerging)

\* The second attempt has passed from the upload phase to the merge phase.
C26_Witness ==
  /\ attempt = 2
  /\ phase = "Merging"
  /\ isMerging
  /\ ~isUploading
  /\ ~isPreparing
  /\ Len(uploadResults) >= 2

\* C27: while a loading flag is set the merge button is disabled, and an
\* attempt starts only when no attempt is in flight: the one before it, if
\* any, has reached Succeeded or Failed.
C27_OneAttemptAtATime ==
  [][ /\ isLoading => ~ENABLED MergeButtonClick
      /\ attempt' # attempt \/ (phase' = "RequestingGrants" /\ phase # phase') =>
           /\ attempt' = attempt + 1
           /\ ~isLoading
           /\ ~InFlight
           /\ attempt >= 1 => HasReturned(phase) \/ phase = "Idle"
    ]_vars

\* A second attempt is uploading after the first one has failed, with an
\* upload of the first still in flight.
C27_Witness ==
  /\ attempt = 2
  /\ phase = "Uploading"
  /\ isUploading
  /\ \E x \in xhrs : x.att = 1
  /\ \E x \in xhrs : x.att = 2

\* C28 as stated: in the step in which an attempt succeeds, every file that
\* handleMergeSuccess removes from the batch has a grant of its name whose
\* key is in the attempt's merge request.
C28_NoFileDiscardedUnmerged ==
  [][ phase = "Merging" /\ phase' = "Succeeded" =>
        /\ files' = <<>>
        /\ mergeReq # <<>>
        /\ \A i \in DOMAIN files :
             \E g \in GrantsNamed(files[i]), k \in DOMAIN mergeReq[1] :
               uploadDetails[g].key = mergeReq[1][k]
    ]_vars

\* C29: the store holds at most TOAST_LIMIT = 1 toast, and a step of toast()
\* leaves exactly the toast it has added, open, whatever was held before;
\* no other action adds a toast or changes the id of the one held.
C29_OneToastNewestWins ==
  [][ /\ Len(memoryState.toasts) <= TOAST_LIMIT
      /\ Len(memoryState'.toasts) <= 1
      /\ IF count' # count
         THEN /\ Len(memoryState'.toasts) = 1
              /\ memoryState'.toasts[1].id = count'
              /\ memoryState'.toasts[1].open
              /\ \A i \in DOMAIN memoryState.toasts :
                   memoryState.toasts[i].id # count'
         ELSE \A i \in DOMAIN memoryState'.toasts :
                \E j \in DOMAIN memoryState.toasts :
                  memoryState'.toasts[i].id = memoryState.toasts[j].id
    ]_vars

\* The third toast has replaced one that had been dismissed and whose
\* removal timer is still pending.
C29_Witness ==
  /\ count = 3
  /\ Len(memoryState.toasts) = 1
  /\ memoryState.toasts[1].id = 3
  /\ memoryState.toasts[1].open
  /\ 2 \in toastTimeouts

\* t holds the elements of s, each as many times as s does
IsPermutation(s, t) ==
  /\ Len(s) = Len(t)
  /\ \A e \in Range(s) \cup Range(t) :
       Cardinality({i \in DOMAIN s : s[i] = e}) =
       Cardinality({i \in DOMAIN t : t[i] = e})

\* C30: a step of a drag (start, enter, end) leaves the batch a permutation of
\* what it was, without an undefined entry; a drag-enter at index j that moves
\* the dragged file puts it at index j, keeps the others in their order and
\* leaves j as the dragged index; drag start and drag end do not touch the
\* batch.
C30_DragPermutes ==
  [][ draggedIndex # <<>> \/ draggedIndex' # <<>> =>
        /\ IsPermutation(files, files')
        /\ \A i \in DOMAIN files' : files'[i] # UndefinedFile
        /\ draggedIndex' # <<>> => draggedIndex'[1] \in 0..(Len(files') - 1)
        /\ files' # files =>
             /\ draggedIndex # <<>> /\ draggedIndex' # <<>>
             /\ files'[draggedIndex'[1] + 1] = files[draggedIndex[1] + 1]
             /\ RemoveAt(files', draggedIndex'[1] + 1) =
                  RemoveAt(files, draggedIndex[1] + 1)
    ]_vars

\* A drag over a batch of three different files has the dragged file in the
\* middle.
C30_Witness ==
  /\ draggedIndex = <<1>>
  /\ Len(files) = 3
  /\ UniqueNames(files)
  /\ files[2].name = "a.pdf"

====
